---- MODULE Spec2Model ----
(***************************************************************************)
(* Model of the library resource-access layer (src/app.py): the document   *)
(* store helpers, the admin session guard, the book handlers, the rating   *)
(* aggregation and the pagination helper.                                  *)
(***************************************************************************)
EXTENDS Integers, Sequences, FiniteSets, Bags, TLC

(***************************************************************************)
(* Bounds of the model                                                     *)
(***************************************************************************)
MaxItems == 3
MaxOffset == 4

(***************************************************************************)
(* Request values.  A value read from a JSON body or a query string is a   *)
(* record: k is its kind, n/d its number (n/d for a float), s its text as  *)
(* a sequence of one-character strings.                                    *)
(***************************************************************************)
None == [k |-> "null", n |-> 0, d |-> 1, s |-> <<>>]
JInt(i) == [k |-> "int", n |-> i, d |-> 1, s |-> <<>>]
JFloat(num, den) == [k |-> "float", n |-> num, d |-> den, s |-> <<>>]
JStr(chars) == [k |-> "str", n |-> 0, d |-> 1, s |-> chars]

Max(a, b) == IF a >= b THEN a ELSE b
Min(a, b) == IF a <= b THEN a ELSE b

Digits == {"0", "1", "2", "3", "4", "5", "6", "7", "8", "9"}
DigitVal(c) ==
    CASE c = "0" -> 0 [] c = "1" -> 1 [] c = "2" -> 2 [] c = "3" -> 3
      [] c = "4" -> 4 [] c = "5" -> 5 [] c = "6" -> 6 [] c = "7" -> 7
      [] c = "8" -> 8 [] c = "9" -> 9

\* str.strip(): leading and trailing blanks removed
RECURSIVE LStrip(_)
LStrip(chars) ==
    IF chars # <<>> /\ Head(chars) = " " THEN LStrip(Tail(chars)) ELSE chars
RECURSIVE RStrip(_)
RStrip(chars) ==
    IF chars # <<>> /\ chars[Len(chars)] = " "
    THEN RStrip(SubSeq(chars, 1, Len(chars) - 1)) ELSE chars
Strip(chars) == RStrip(LStrip(chars))

RECURSIVE DigitsVal(_, _)
DigitsVal(chars, acc) ==
    IF chars = <<>> THEN acc
    ELSE DigitsVal(Tail(chars), 10 * acc + DigitVal(Head(chars)))
AllDigits(chars) == chars # <<>> /\ \A i \in 1..Len(chars) : chars[i] \in Digits

\* int(text): blanks stripped, an optional sign, then decimal digits;
\* anything else raises ValueError (result None here)
ParseInt(chars) ==
    LET t == Strip(chars)
        signed == t # <<>> /\ Head(t) \in {"-", "+"}
        body == IF signed THEN Tail(t) ELSE t
    IN IF ~AllDigits(body) THEN None
       ELSE IF signed /\ Head(t) = "-" THEN JInt(0 - DigitsVal(body, 0))
       ELSE JInt(DigitsVal(body, 0))

\* int(float) truncates toward zero
Trunc(num, den) == IF num >= 0 THEN num \div den ELSE 0 - ((0 - num) \div den)

to_int(value, default) ==
    CASE value.k = "int" -> value
      [] value.k = "float" -> JInt(Trunc(value.n, value.d))
      [] value.k = "str" -> (IF ParseInt(value.s) = None THEN default ELSE ParseInt(value.s))
      [] OTHER -> default

parse_limit(value, default, max_limit) ==
    LET n == to_int(value, JInt(default))
    IN IF n = None THEN default
       ELSE IF n.n < 1 THEN 1
       ELSE IF n.n > max_limit THEN max_limit
       ELSE n.n

parse_offset(value, default) ==
    LET n == to_int(value, JInt(default))
    IN IF n = None THEN default ELSE Max(0, n.n)

DefaultLimit == 10
MaxLimit == 100

\* items[start:end] of Python, for start, end >= 0
Slice(items, start, end) ==
    LET lo == Min(start, Len(items))
        hi == Min(end, Len(items))
    IN IF hi <= lo THEN <<>> ELSE SubSeq(items, lo + 1, hi)

\* paginate with has_more computed from an inclusive comparison
paginate_InclusiveEnd(items, limit, offset) ==
    LET total == Len(items)
        size == Max(1, IF limit = 0 THEN 1 ELSE limit)
        start == Max(0, offset)
        end == Min(start + size, total)
    IN [items |-> Slice(items, start, end),
        total |-> total,
        limit |-> size,
        offset |-> offset,
        has_more |-> end <= total]

paginate(items, limit, offset) ==
    LET total == Len(items)
        size == Max(1, IF limit = 0 THEN 1 ELSE limit)
        start == Max(0, offset)
        end == Min(start + size, total)
    IN [items |-> Slice(items, start, end),
        total |-> total,
        limit |-> size,
        offset |-> offset,
        has_more |-> end < total]

(***************************************************************************)
(* Documents are functions from field names to values; a collection is a   *)
(* function from document ids to documents.                                *)
(***************************************************************************)
Empty == [f \in {} |-> 0]
Merge(doc, patch) ==
    [f \in DOMAIN doc \cup DOMAIN patch |->
        IF f \in DOMAIN patch THEN patch[f] ELSE doc[f]]
Field(f, v) == [g \in {f} |-> v]
Has(doc, f) == f \in DOMAIN doc
\* dict.get(f) being truthy: present and not "", 0, [] or None
Truthy(doc, f) == Has(doc, f) /\ doc[f] # "" 
Put(col, id, doc) == [i \in DOMAIN col \cup {id} |-> IF i = id THEN doc ELSE col[i]]
Remove(col, id) == [i \in DOMAIN col \ {id} |-> col[i]]

\* the auto-generated document ids, in the order the store hands them out
IdNames == <<"d1", "d2", "d3", "d4", "d5", "d6", "d7", "d8", "d9">>
AutoId(n) == IdNames[n]

exists(col, id) == id \in DOMAIN col

get_one(col, id) == IF id \in DOMAIN col THEN Merge(col[id], Field("id", id)) ELSE Empty

\* create(col, data): a new document under a fresh id; createdAt is kept
\* when the payload carries one, updatedAt is always the current time
create(col, id, data, ts) ==
    LET payload == Merge(IF Has(data, "createdAt") THEN data
                         ELSE Merge(data, Field("createdAt", ts)),
                         Field("updatedAt", ts))
    IN Put(col, id, payload)

\* update_one writing the payload with set() instead of update()
update_one_Overwrite(col, id, data, ts) ==
    IF ~exists(col, id) THEN col
    ELSE Put(col, id, Merge(data, Field("updatedAt", ts)))

\* update_one(col, id, data): None (collection unchanged) for a missing
\* id, else the patch and a fresh updatedAt merged into the document
update_one(col, id, data, ts) ==
    IF ~exists(col, id) THEN col
    ELSE Put(col, id, Merge(col[id], Merge(data, Field("updatedAt", ts))))

\* delete_one deleting the whole collection instead of the one document
delete_one_All(col, id) == IF ~exists(col, id) THEN col ELSE Empty

delete_one(col, id) == IF ~exists(col, id) THEN col ELSE Remove(col, id)

require_fields(data, required) == {f \in required : ~Truthy(data, f)}

(***************************************************************************)
(* Rating aggregation                                                      *)
(***************************************************************************)
RECURSIVE GCD(_, _)
GCD(a, b) == IF b = 0 THEN a ELSE GCD(b, a % b)
\* the quotient a / b of a true division, as a fraction in lowest terms
Div(a, b) == LET g == GCD(a, b) IN [n |-> a \div g, d |-> b \div g]
Zero == [n |-> 0, d |-> 1]

FieldOr0(doc, f) == IF Has(doc, f) THEN doc[f] ELSE 0

\* RateFields with the count left as it was read
RateFields_StaleCount(book_data, rating, ts) ==
    LET rating_sum == FieldOr0(book_data, "rating_sum") + rating
        rating_count == FieldOr0(book_data, "rating_count")
        rating_avg == IF rating_count # 0 THEN Div(rating_sum, rating_count) ELSE Zero
    IN [rating_sum |-> rating_sum, rating_count |-> rating_count,
        rating_avg |-> rating_avg, updatedAt |-> ts]

\* the fields books_rate writes back, computed from the snapshot it read
RateFields(book_data, rating, ts) ==
    LET rating_sum == FieldOr0(book_data, "rating_sum") + rating
        rating_count == FieldOr0(book_data, "rating_count") + 1
        rating_avg == IF rating_count # 0 THEN Div(rating_sum, rating_count) ELSE Zero
    IN [rating_sum |-> rating_sum, rating_count |-> rating_count,
        rating_avg |-> rating_avg, updatedAt |-> ts]

RatingValid(rating) == rating # None /\ rating.n >= 1 /\ rating.n <= 5

record_rating(log, book_id, rating, notes, name, ts) ==
    Append(log, [book_id |-> book_id, rating |-> rating, notes |-> notes,
                 name |-> name, createdAt |-> ts])

(***************************************************************************)
(* Tags.  A text is a sequence of atoms: " " is a blank, any other atom a   *)
(* run of characters without surrounding blanks.                           *)
(***************************************************************************)
TAG_OPTIONS ==
    {<<"Science Fiction">>, <<"Fantasy">>, <<"Mystery">>, <<"Historical">>,
     <<"Romance">>, <<"Non-fiction">>, <<"Biography">>, <<"Young Adult">>,
     <<"Horror">>, <<"Adventure">>, <<"Classic">>, <<"Thriller">>,
     <<"Humor">>, <<"Political">>, <<"Novella">>}

TagStr(text) == [k |-> "str", s |-> text, l |-> <<>>]
TagList(texts) == [k |-> "list", s |-> <<>>, l |-> texts]
NoTags == [k |-> "null", s |-> <<>>, l |-> <<>>]

InSeq(x, sq) == \E i \in 1..Len(sq) : sq[i] = x

\* CleanTags appending a tag that is already in the result to its end again
RECURSIVE CleanTags_MoveToEnd(_, _)
CleanTags_MoveToEnd(tags, cleaned) ==
    IF tags = <<>> THEN cleaned
    ELSE LET t == Strip(Head(tags))
         IN CleanTags_MoveToEnd(Tail(tags),
                      IF t # <<>> /\ t \in TAG_OPTIONS
                      THEN Append(SelectSeq(cleaned, LAMBDA c : c # t), t)
                      ELSE cleaned)

RECURSIVE CleanTags(_, _)
CleanTags(tags, cleaned) ==
    IF tags = <<>> THEN cleaned
    ELSE LET t == Strip(Head(tags))
         IN CleanTags(Tail(tags),
                      IF t # <<>> /\ t \in TAG_OPTIONS /\ ~InSeq(t, cleaned)
                      THEN Append(cleaned, t) ELSE cleaned)

\* sanitize_tags without the test against the vocabulary
sanitize_tags_AnyTag(value) ==
    IF value.k = "null" THEN <<>>
    ELSE IF value.k = "str" THEN <<value.s>> ELSE value.l

sanitize_tags(value) ==
    IF value.k = "null" \/ (value.k = "str" /\ value.s = <<>>)
       \/ (value.k = "list" /\ value.l = <<>>)
    THEN <<>>
    ELSE CleanTags(IF value.k = "str" THEN <<value.s>> ELSE value.l, <<>>)

(***************************************************************************)
(* Book handlers: the checks made before the write, and the data written   *)
(***************************************************************************)
Ok == ""

\* the first check of books_create that fails, Ok when none does
books_create_error(data, authorsCol, publishersCol) ==
    IF require_fields(data, {"title", "author_id", "publisher_id"}) # {}
    THEN "Missing required field(s)"
    ELSE IF Has(data, "year") /\ to_int(data["year"], None) = None
    THEN "year must be an integer"
    ELSE IF ~exists(authorsCol, data["author_id"])
    THEN "author_id does not exist"
    ELSE IF ~exists(publishersCol, data["publisher_id"])
    THEN "publisher_id does not exist"
    ELSE Ok

SetDefault(doc, f, v) == IF Has(doc, f) THEN doc ELSE Merge(doc, Field(f, v))

\* the data books_create hands to create
books_create_data(data) ==
    LET coerced == IF Has(data, "year")
                   THEN Merge(data, Field("year", to_int(data["year"], None).n))
                   ELSE data
        tagged == Merge(coerced,
                        Field("tags", sanitize_tags(IF Has(data, "tags")
                                                    THEN data["tags"] ELSE NoTags)))
    IN SetDefault(SetDefault(SetDefault(tagged, "rating_sum", 0),
                             "rating_count", 0), "rating_avg", Zero)

books_update_error(data, authorsCol, publishersCol) ==
    IF Has(data, "year") /\ to_int(data["year"], None) = None
    THEN "year must be an integer"
    ELSE IF Has(data, "author_id") /\ ~exists(authorsCol, data["author_id"])
    THEN "author_id does not exist"
    ELSE IF Has(data, "publisher_id") /\ ~exists(publishersCol, data["publisher_id"])
    THEN "publisher_id does not exist"
    ELSE Ok

books_update_data(data) ==
    LET coerced == IF Has(data, "year")
                   THEN Merge(data, Field("year", to_int(data["year"], None).n))
                   ELSE data
    IN IF Has(data, "tags")
       THEN Merge(coerced, Field("tags", sanitize_tags(data["tags"])))
       ELSE coerced

(***************************************************************************)
(* State                                                                   *)
(***************************************************************************)
VARIABLES
    authors, publishers, books, borrows,  \* the collections, id -> document
    ratings,          \* the rating log, in the order the entries were added
    admin_sessions,   \* the tokens of the durable session collection
    admin_tokens,     \* _admin_tokens, the in-memory token cache
    clock,            \* the time now_iso() returns next
    nextId,           \* how many ids the store has handed out
    minted,           \* how many tokens login has generated
    pc, loc,          \* per request in flight: its position and its locals
    res,              \* per request slot: the last response sent
    resp,             \* the last response of a handler run in one piece
    issued,           \* history: the tokens a login has returned
    logoutCalled,     \* history: the tokens logout has been called with
    revoked,          \* history: the tokens a logout has answered 200 for
    pgItems, pgLimit, pgOffset, pgOut   \* a list request and its page

storeVars == <<authors, publishers, books, borrows, ratings>>
authVars == <<admin_sessions, admin_tokens, minted, issued, logoutCalled, revoked>>
procVars == <<pc, loc, res>>
pageVars == <<pgItems, pgLimit, pgOffset, pgOut>>
vars == <<storeVars, authVars, procVars, pageVars, clock, nextId, resp>>

(***************************************************************************)
(* Values of the parts of the state a specification leaves alone           *)
(***************************************************************************)
NoResp == [op |-> "", status |-> 0, error |-> "", id |-> "", input |-> Empty]
NoLoc == [op |-> ""]
NoPage == [items |-> <<>>, total |-> 0 - 1, limit |-> 0, offset |-> 0, has_more |-> FALSE]

NoStore ==
    /\ authors = Empty /\ publishers = Empty /\ books = Empty
    /\ borrows = Empty /\ ratings = <<>>
NoAuth ==
    /\ admin_sessions = {} /\ admin_tokens = {} /\ minted = 0
    /\ issued = {} /\ logoutCalled = {} /\ revoked = {}
NoProcs == pc = <<>> /\ loc = <<>> /\ res = <<>>
NoPaging == pgItems = <<>> /\ pgLimit = None /\ pgOffset = None /\ pgOut = NoPage

\* a store that holds one author, one publisher and one book created by
\* books_create from a plain payload
AuthorId == AutoId(1)
PublisherId == AutoId(2)
BookId == AutoId(3)
PlainBook == [title |-> "T", author_id |-> AuthorId, publisher_id |-> PublisherId]
SeededStore ==
    /\ authors = create(Empty, AuthorId, [name |-> "A"], 0)
    /\ publishers = create(Empty, PublisherId, [name |-> "P", city |-> "C"], 0)
    /\ books = create(Empty, BookId, books_create_data(PlainBook), 0)
    /\ borrows = Empty /\ ratings = <<>>
    /\ clock = 1 /\ nextId = 3

(***************************************************************************)
(* books_rate, run in one piece                                            *)
(***************************************************************************)
rate_update(booksCol, id, snapshot, rating, ts) ==
    Put(booksCol, id, Merge(booksCol[id], RateFields(snapshot, rating, ts)))

RateNotes == <<"good", " ">>
RateName == <<>>
RateInputs == {JInt(i) : i \in 0..6} \cup {None, JStr(<<"4">>), JStr(<<"a">>)}

BooksRate(id, data) ==
    LET rating == to_int(data.rating, None)
        answer(status, error) ==
            [op |-> "books_rate", status |-> status, error |-> error,
             id |-> id, input |-> data]
    IN IF ~exists(books, id)
       THEN /\ resp' = answer(404, "Book not found")
            /\ UNCHANGED <<storeVars, clock>>
       ELSE IF ~RatingValid(rating)
       THEN /\ resp' = answer(400, "rating must be an integer between 1 and 5")
            /\ UNCHANGED <<storeVars, clock>>
       ELSE /\ books' = rate_update(books, id, books[id], rating.n, clock)
            /\ ratings' = record_rating(ratings, id, rating.n, Strip(data.notes),
                                        Strip(data.name), clock + 1)
            /\ clock' = clock + 2
            /\ resp' = answer(201, Ok)
            /\ UNCHANGED <<authors, publishers, borrows>>

(***************************************************************************)
(* Ratings applied one call at a time to a newly created book              *)
(***************************************************************************)
MaxRatings == 3

InitRateSeq ==
    /\ SeededStore /\ NoAuth /\ NoProcs /\ NoPaging
    /\ resp = NoResp

RateCall ==
    /\ Len(ratings) < MaxRatings
    /\ \E id \in {BookId, "zz"}, rating \in RateInputs :
          BooksRate(id, [rating |-> rating, notes |-> RateNotes, name |-> RateName])
    /\ UNCHANGED <<authVars, procVars, pageVars, nextId>>

NextRateSeq == RateCall

SpecRateSeq == InitRateSeq /\ [][NextRateSeq]_vars

RECURSIVE SumRatings(_)
SumRatings(log) == IF log = <<>> THEN 0 ELSE Head(log).rating + SumRatings(Tail(log))

C7_Totals ==
    LET b == books[BookId]
    IN /\ b["rating_count"] = Len(ratings)
       /\ b["rating_sum"] = SumRatings(ratings)
       /\ b["rating_avg"] = IF ratings = <<>> THEN Zero
                            ELSE Div(SumRatings(ratings), Len(ratings))
       /\ \A i \in 1..Len(ratings) : ratings[i].book_id = BookId

C7_OneEntryPerCall ==
    \A r \in 1..5 :
        BooksRate(BookId, [rating |-> JInt(r), notes |-> RateNotes, name |-> RateName])
        => /\ Len(ratings') = Len(ratings) + 1
           /\ SubSeq(ratings', 1, Len(ratings)) = ratings
           /\ ratings'[Len(ratings')].book_id = BookId
           /\ ratings'[Len(ratings')].rating = r

\* C7: ratings in 1..5 applied one call at a time to a newly created book
\* leave it with rating_sum the sum of the ratings, rating_count their
\* number and rating_avg sum/number, and every call appends exactly one
\* entry with its book_id and rating to the rating log
C7_SequentialRatings == []C7_Totals /\ [][C7_OneEntryPerCall]_vars

C7_Witness ==
    /\ Len(ratings) = 3
    /\ <<ratings[1].rating, ratings[2].rating, ratings[3].rating>> = <<5, 3, 4>>
    /\ books[BookId]["rating_sum"] = 12
    /\ books[BookId]["rating_avg"] = [n |-> 4, d |-> 1]

(***************************************************************************)
(* books_rate, one store call at a time: the read of the book, the update  *)
(* of the book, the append to the rating log.  Each of NumRaters requests  *)
(* submits one rating.                                                     *)
(***************************************************************************)
NumRaters == 2
Raters == 1..NumRaters

NoRes == [op |-> "", status |-> 0, error |-> ""]
Answer(op, status, error) == [op |-> op, status |-> status, error |-> error]

InitRate ==
    /\ SeededStore /\ NoAuth /\ NoPaging
    /\ pc = [p \in Raters |-> "idle"]
    /\ loc = [p \in Raters |-> NoLoc]
    /\ res = [p \in Raters |-> NoRes]
    /\ resp = NoResp

\* lines 426-439: the snapshot is read and the new totals are computed from it
RateRead(p) ==
    /\ pc[p] = "idle"
    /\ \E id \in {BookId, "zz"}, raw \in RateInputs :
          LET rating == to_int(raw, None)
          IN IF ~exists(books, id)
             THEN /\ res' = [res EXCEPT ![p] = Answer("books_rate", 404, "Book not found")]
                  /\ pc' = [pc EXCEPT ![p] = "done"]
                  /\ loc' = loc
             ELSE IF ~RatingValid(rating)
             THEN /\ res' = [res EXCEPT ![p] =
                               Answer("books_rate", 400, "rating must be an integer between 1 and 5")]
                  /\ pc' = [pc EXCEPT ![p] = "done"]
                  /\ loc' = loc
             ELSE /\ loc' = [loc EXCEPT ![p] =
                               [op |-> "books_rate", id |-> id, rating |-> rating.n,
                                snapshot |-> books[id]]]
                  /\ pc' = [pc EXCEPT ![p] = "rate_update"]
                  /\ res' = res
    /\ UNCHANGED <<storeVars, authVars, pageVars, clock, nextId, resp>>

\* lines 440-445: book_ref.update; the store raises NotFound when the
\* document is gone, which the handler does not catch
RateUpdate(p) ==
    /\ pc[p] = "rate_update"
    /\ IF ~exists(books, loc[p].id)
       THEN /\ res' = [res EXCEPT ![p] = Answer("books_rate", 500, "NotFound")]
            /\ pc' = [pc EXCEPT ![p] = "done"]
            /\ UNCHANGED <<books, clock>>
       ELSE /\ books' = rate_update(books, loc[p].id, loc[p].snapshot, loc[p].rating, clock)
            /\ clock' = clock + 1
            /\ pc' = [pc EXCEPT ![p] = "rate_record"]
            /\ res' = res
    /\ UNCHANGED <<authors, publishers, borrows, ratings, loc, authVars, pageVars,
                   nextId, resp>>

\* lines 446-451: record_rating, then the 201 answer
RateRecord(p) ==
    /\ pc[p] = "rate_record"
    /\ ratings' = record_rating(ratings, loc[p].id, loc[p].rating, Strip(RateNotes),
                                Strip(RateName), clock)
    /\ clock' = clock + 1
    /\ res' = [res EXCEPT ![p] = Answer("books_rate", 201, Ok)]
    /\ pc' = [pc EXCEPT ![p] = "done"]
    /\ UNCHANGED <<authors, publishers, books, borrows, loc, authVars, pageVars,
                   nextId, resp>>

NextRate == \E p \in Raters : RateRead(p) \/ RateUpdate(p) \/ RateRecord(p)

SpecRate == InitRate /\ [][NextRate]_vars

Accepted == {p \in Raters : res[p].status = 201}
RECURSIVE SumSubmitted(_)
SumSubmitted(ps) ==
    IF ps = {} THEN 0
    ELSE LET p == CHOOSE q \in ps : TRUE IN loc[p].rating + SumSubmitted(ps \ {p})

\* C1: when all the concurrent submissions for the book have been answered,
\* its rating_count has grown by the number of accepted submissions and its
\* rating_sum by the sum of their ratings (the book starts at 0 and 0)
C1_NoLostUpdate ==
    (\A p \in Raters : pc[p] = "done") =>
        /\ books[BookId]["rating_count"] = Cardinality(Accepted)
        /\ books[BookId]["rating_sum"] = SumSubmitted(Accepted)

(***************************************************************************)
(* require_admin around a handler that runs in one piece.  lookupOk is     *)
(* whether the read of the session collection succeeds; it is consulted    *)
(* only when the token is not in the cache.                                *)
(***************************************************************************)
NoToken == ""
TokenNames == <<"t1", "t2", "t3", "t4">>
Bogus == "bogus"

\* require_admin letting every request with a token through
require_admin_allows_AnyToken(token, lookupOk) == token # NoToken

require_admin_allows(token, lookupOk) ==
    /\ token # NoToken
    /\ \/ token \in admin_tokens
       \/ lookupOk /\ token \in admin_sessions

require_admin_cache(token, lookupOk) ==
    IF token # NoToken /\ token \notin admin_tokens /\ lookupOk /\ token \in admin_sessions
    THEN admin_tokens \cup {token}
    ELSE admin_tokens

Reply(op, status, error, id, input) ==
    [op |-> op, status |-> status, error |-> error, id |-> id, input |-> input]

Protected(token, op, id, input, handler) ==
    \E lookupOk \in (IF token \in admin_tokens THEN {TRUE} ELSE BOOLEAN) :
        IF require_admin_allows(token, lookupOk)
        THEN /\ handler
             /\ admin_tokens' = require_admin_cache(token, lookupOk)
             /\ UNCHANGED <<admin_sessions, minted, issued, logoutCalled, revoked>>
        ELSE /\ resp' = Reply(op, 401, "Unauthorized", id, input)
             /\ UNCHANGED <<storeVars, authVars, clock, nextId>>

\* one session left in the durable collection, the cache empty as after a
\* restart of the process
SeededAuth ==
    /\ admin_sessions = {TokenNames[1]} /\ admin_tokens = {}
    /\ minted = 1 /\ issued = {TokenNames[1]}
    /\ logoutCalled = {} /\ revoked = {}
ClientTokens == {TokenNames[1], NoToken, Bogus}

(***************************************************************************)
(* Authors and publishers: create, update, delete, get                     *)
(***************************************************************************)
MaxDocs == 1
MaxClock == 3

\* the collection after authors_create / pubs_create
resource_create(col, data, id, ts) ==
    IF require_fields(data, {"name"}) # {} THEN col ELSE create(col, id, data, ts)

AuthorInputs ==
    {Empty, [name |-> ""], [name |-> "B"], [name |-> "B", bio |-> "x"],
     [name |-> "B", createdAt |-> 0 - 1, updatedAt |-> 0 - 1]}
AuthorPatches ==
    {Empty, [name |-> "N"], [bio |-> "y"], [name |-> "N", updatedAt |-> 0 - 1]}
DocIds == {AuthorId, AutoId(4), "zz"}

AuthorsCreate(token, data) ==
    /\ nextId < 3 + MaxDocs /\ clock < MaxClock
    /\ Protected(token, "authors_create", "", data,
         IF require_fields(data, {"name"}) # {}
         THEN /\ resp' = Reply("authors_create", 400, "Missing required field(s)", "", data)
              /\ UNCHANGED <<storeVars, clock, nextId>>
         ELSE /\ authors' = resource_create(authors, data, AutoId(nextId + 1), clock)
              /\ nextId' = nextId + 1 /\ clock' = clock + 1
              /\ resp' = Reply("authors_create", 201, Ok, AutoId(nextId + 1), data)
              /\ UNCHANGED <<publishers, books, borrows, ratings>>)
    /\ UNCHANGED <<procVars, pageVars>>

AuthorsUpdate(token, id, data) ==
    /\ clock < MaxClock
    /\ Protected(token, "authors_update", id, data,
         /\ authors' = update_one(authors, id, data, clock)
         /\ clock' = IF exists(authors, id) THEN clock + 1 ELSE clock
         /\ resp' = IF exists(authors, id) THEN Reply("authors_update", 200, Ok, id, data)
                    ELSE Reply("authors_update", 404, "Not found", id, data)
         /\ UNCHANGED <<publishers, books, borrows, ratings, nextId>>)
    /\ UNCHANGED <<procVars, pageVars>>

AuthorsDelete(token, id) ==
    /\ Protected(token, "authors_delete", id, Empty,
         /\ authors' = delete_one(authors, id)
         /\ resp' = IF exists(authors, id) THEN Reply("authors_delete", 204, Ok, id, Empty)
                    ELSE Reply("authors_delete", 404, "Not found", id, Empty)
         /\ UNCHANGED <<publishers, books, borrows, ratings, clock, nextId>>)
    /\ UNCHANGED <<procVars, pageVars>>

AuthorsGet(id) ==
    /\ resp' = IF get_one(authors, id) # Empty THEN Reply("authors_get", 200, Ok, id, Empty)
               ELSE Reply("authors_get", 404, "Not found", id, Empty)
    /\ UNCHANGED <<storeVars, authVars, procVars, pageVars, clock, nextId>>

PubsCreate(token, data) ==
    /\ nextId < 3 + MaxDocs /\ clock < MaxClock
    /\ Protected(token, "pubs_create", "", data,
         IF require_fields(data, {"name"}) # {}
         THEN /\ resp' = Reply("pubs_create", 400, "Missing required field(s)", "", data)
              /\ UNCHANGED <<storeVars, clock, nextId>>
         ELSE /\ publishers' = resource_create(publishers, data, AutoId(nextId + 1), clock)
              /\ nextId' = nextId + 1 /\ clock' = clock + 1
              /\ resp' = Reply("pubs_create", 201, Ok, AutoId(nextId + 1), data)
              /\ UNCHANGED <<authors, books, borrows, ratings>>)
    /\ UNCHANGED <<procVars, pageVars>>

PubsUpdate(token, id, data) ==
    /\ clock < MaxClock
    /\ Protected(token, "pubs_update", id, data,
         /\ publishers' = update_one(publishers, id, data, clock)
         /\ clock' = IF exists(publishers, id) THEN clock + 1 ELSE clock
         /\ resp' = IF exists(publishers, id) THEN Reply("pubs_update", 200, Ok, id, data)
                    ELSE Reply("pubs_update", 404, "Not found", id, data)
         /\ UNCHANGED <<authors, books, borrows, ratings, nextId>>)
    /\ UNCHANGED <<procVars, pageVars>>

PubsDelete(token, id) ==
    /\ Protected(token, "pubs_delete", id, Empty,
         /\ publishers' = delete_one(publishers, id)
         /\ resp' = IF exists(publishers, id) THEN Reply("pubs_delete", 204, Ok, id, Empty)
                    ELSE Reply("pubs_delete", 404, "Not found", id, Empty)
         /\ UNCHANGED <<authors, books, borrows, ratings, clock, nextId>>)
    /\ UNCHANGED <<procVars, pageVars>>

PubsGet(id) ==
    /\ resp' = IF get_one(publishers, id) # Empty THEN Reply("pubs_get", 200, Ok, id, Empty)
               ELSE Reply("pubs_get", 404, "Not found", id, Empty)
    /\ UNCHANGED <<storeVars, authVars, procVars, pageVars, clock, nextId>>

InitCrud ==
    /\ SeededStore /\ SeededAuth /\ NoProcs /\ NoPaging
    /\ resp = NoResp

NextCrud ==
    \/ \E token \in ClientTokens, data \in AuthorInputs : AuthorsCreate(token, data)
    \/ \E token \in ClientTokens, id \in DocIds, data \in AuthorPatches :
          AuthorsUpdate(token, id, data)
    \/ \E token \in ClientTokens, id \in DocIds : AuthorsDelete(token, id)
    \/ \E id \in DocIds : AuthorsGet(id)

SpecCrud == InitCrud /\ [][NextCrud]_vars

C10_Step ==
    (resp'.op = "authors_update" /\ resp'.status \in {200, 404}) =>
        LET id == resp'.id
            data == resp'.input
        IN IF resp'.status = 200
           THEN /\ id \in DOMAIN authors
                /\ DOMAIN authors' = DOMAIN authors
                /\ \A o \in DOMAIN authors \ {id} : authors'[o] = authors[o]
                /\ DOMAIN authors'[id] = DOMAIN authors[id] \cup DOMAIN data \cup {"updatedAt"}
                /\ \A f \in DOMAIN authors[id] \ (DOMAIN data \cup {"updatedAt"}) :
                      authors'[id][f] = authors[id][f]
                /\ \A f \in DOMAIN data \ {"updatedAt"} : authors'[id][f] = data[f]
                /\ authors'[id]["updatedAt"] = clock
                /\ UNCHANGED <<publishers, books, borrows, ratings>>
           ELSE /\ id \notin DOMAIN authors
                /\ UNCHANGED storeVars

\* C10: update of an existing document changes only the fields named in the
\* patch and updatedAt, leaving its other fields and all other documents as
\* they were; update of a missing id answers Not-Found and changes nothing
C10_UpdateFrame == [][C10_Step]_vars

C10_Witness ==
    /\ resp.op = "authors_update" /\ resp.status = 200
    /\ resp.id = AuthorId /\ resp.input = [bio |-> "y"]
    /\ authors[AuthorId]["name"] = "A" /\ authors[AuthorId]["bio"] = "y"
    /\ authors[AuthorId]["createdAt"] = 0 /\ authors[AuthorId]["updatedAt"] > 0

(***************************************************************************)
(* Books: create, update and rate, each handler run in one piece           *)
(***************************************************************************)
MaxBooks == 1

\* books_create with the publisher check made after the write
books_create_result_LateCheck(booksCol, data, authorsCol, publishersCol, id, ts) ==
    IF books_create_error(data, authorsCol, publishersCol)
           \in {Ok, "publisher_id does not exist"}
    THEN create(booksCol, id, books_create_data(data), ts)
    ELSE booksCol

\* the books collection after books_create
books_create_result(booksCol, data, authorsCol, publishersCol, id, ts) ==
    IF books_create_error(data, authorsCol, publishersCol) # Ok
    THEN booksCol
    ELSE create(booksCol, id, books_create_data(data), ts)

\* the books collection after books_update
books_update_result(booksCol, id, data, authorsCol, publishersCol, ts) ==
    IF books_update_error(data, authorsCol, publishersCol) # Ok
    THEN booksCol
    ELSE update_one(booksCol, id, books_update_data(data), ts)

YearArgs == {JInt(7), JStr(<<"7">>), JStr(<<"a">>)}
OneOf(f, values) == {Field(f, v) : v \in values}
Optional(f, values) == {Empty} \cup OneOf(f, values)
Merged(A, B) == {Merge(a, b) : a \in A, b \in B}

BookInputs ==
    Merged(Merged(Merged(Merged(
        Optional("title", {"T", ""}),
        OneOf("author_id", {AuthorId, "zz"})),
        OneOf("publisher_id", {PublisherId, "zz"})),
        Optional("year", YearArgs)),
        {Empty, [rating_sum |-> 5, rating_count |-> 2]})

BookPatches ==
    {Empty, [title |-> "U"], [rating_sum |-> 5]}
      \cup OneOf("year", YearArgs)
      \cup OneOf("author_id", {AuthorId, "zz"})
      \cup OneOf("publisher_id", {PublisherId, "zz"})
BookIds == {BookId, "zz"}

BooksCreate(token, data) ==
    /\ nextId < 3 + MaxBooks /\ clock < MaxClock
    /\ Protected(token, "books_create", "", data,
         LET error == books_create_error(data, authors, publishers)
         IN /\ books' = books_create_result(books, data, authors, publishers,
                                            AutoId(nextId + 1), clock)
            /\ IF error # Ok
               THEN /\ resp' = Reply("books_create", 400, error, "", data)
                    /\ UNCHANGED <<clock, nextId>>
               ELSE /\ resp' = Reply("books_create", 201, Ok, AutoId(nextId + 1), data)
                    /\ nextId' = nextId + 1 /\ clock' = clock + 1
            /\ UNCHANGED <<authors, publishers, borrows, ratings>>)
    /\ UNCHANGED <<procVars, pageVars>>

BooksUpdate(token, id, data) ==
    /\ clock < MaxClock
    /\ Protected(token, "books_update", id, data,
         LET error == books_update_error(data, authors, publishers)
         IN /\ books' = books_update_result(books, id, data, authors, publishers, clock)
            /\ IF error # Ok
               THEN /\ resp' = Reply("books_update", 400, error, id, data)
                    /\ clock' = clock
               ELSE IF ~exists(books, id)
               THEN /\ resp' = Reply("books_update", 404, "Not found", id, data)
                    /\ clock' = clock
               ELSE /\ resp' = Reply("books_update", 200, Ok, id, data)
                    /\ clock' = clock + 1
            /\ UNCHANGED <<authors, publishers, borrows, ratings, nextId>>)
    /\ UNCHANGED <<procVars, pageVars>>

BooksRateCall ==
    /\ clock < MaxClock
    /\ \E id \in BookIds, rating \in RateInputs :
          BooksRate(id, [rating |-> rating, notes |-> RateNotes, name |-> RateName])
    /\ UNCHANGED <<authVars, procVars, pageVars, nextId>>

InitBooks ==
    /\ SeededStore /\ SeededAuth /\ NoProcs /\ NoPaging
    /\ resp = NoResp

NextBooks ==
    \/ \E token \in ClientTokens, data \in BookInputs : BooksCreate(token, data)
    \/ \E token \in ClientTokens, id \in BookIds, data \in BookPatches :
          BooksUpdate(token, id, data)
    \/ BooksRateCall

SpecBooks == InitBooks /\ [][NextBooks]_vars

\* C4: every book with rating_count > 0 has rating_avg = rating_sum /
\* rating_count, and every book with rating_count = 0 has rating_avg = 0
C4_AverageConsistent ==
    \A id \in DOMAIN books :
        LET b == books[id]
        IN IF b["rating_count"] > 0
           THEN b["rating_avg"] = Div(b["rating_sum"], b["rating_count"])
           ELSE b["rating_avg"] = Zero

C6_Step ==
    (resp'.op \in {"books_create", "books_update"} /\ resp'.status = 400)
        => UNCHANGED storeVars

\* C6: a book create or update answered with a Validation error writes
\* nothing: every collection is the same after the call as before it
C6_RejectedWritesNothing == [][C6_Step]_vars

C6_Witness ==
    /\ resp.op = "books_create" /\ resp.status = 400
    /\ resp.error = "publisher_id does not exist"

(***************************************************************************)
(* books_create and the author / publisher deletes, one store call at a    *)
(* time.  Each of NumClients requests runs one handler; the token of the   *)
(* session is in the cache, so the guard is the in-memory test alone.      *)
(***************************************************************************)
NumClients == 2
Clients == 1..NumClients

RefInputs ==
    {PlainBook, [title |-> "T", author_id |-> "zz", publisher_id |-> PublisherId],
     [title |-> "T", author_id |-> AuthorId, publisher_id |-> "zz"],
     [author_id |-> AuthorId, publisher_id |-> PublisherId],
     [title |-> "T", author_id |-> AuthorId, publisher_id |-> PublisherId,
      year |-> JStr(<<"a">>)]}

InitRef ==
    /\ SeededStore
    /\ admin_sessions = {TokenNames[1]} /\ admin_tokens = {TokenNames[1]}
    /\ minted = 1 /\ issued = {TokenNames[1]}
    /\ logoutCalled = {} /\ revoked = {}
    /\ NoPaging
    /\ pc = [p \in Clients |-> "idle"]
    /\ loc = [p \in Clients |-> NoLoc]
    /\ res = [p \in Clients |-> NoRes]
    /\ resp = NoResp

Finish(p, op, status, error) ==
    /\ res' = [res EXCEPT ![p] = Answer(op, status, error)]
    /\ pc' = [pc EXCEPT ![p] = "done"]

\* lines 44-50 and 362-371: the guard, then the checks made on the body alone
CreateCall(p) ==
    /\ pc[p] = "idle"
    /\ \E token \in {TokenNames[1], NoToken}, data \in RefInputs :
          IF ~require_admin_allows(token, FALSE)
          THEN Finish(p, "books_create", 401, "Unauthorized") /\ loc' = loc
          ELSE IF require_fields(data, {"title", "author_id", "publisher_id"}) # {}
          THEN Finish(p, "books_create", 400, "Missing required field(s)") /\ loc' = loc
          ELSE IF Has(data, "year") /\ to_int(data["year"], None) = None
          THEN Finish(p, "books_create", 400, "year must be an integer") /\ loc' = loc
          ELSE /\ loc' = [loc EXCEPT ![p] = [op |-> "books_create", data |-> data]]
               /\ pc' = [pc EXCEPT ![p] = "check_author"]
               /\ res' = res
    /\ UNCHANGED <<storeVars, authVars, pageVars, clock, nextId, resp>>

\* line 373: exists(AUTHORS, author_id)
CreateCheckAuthor(p) ==
    /\ pc[p] = "check_author"
    /\ IF ~exists(authors, loc[p].data["author_id"])
       THEN Finish(p, "books_create", 400, "author_id does not exist")
       ELSE pc' = [pc EXCEPT ![p] = "check_publisher"] /\ res' = res
    /\ UNCHANGED <<storeVars, authVars, pageVars, clock, nextId, resp, loc>>

\* line 375: exists(PUBLISHERS, publisher_id)
CreateCheckPublisher(p) ==
    /\ pc[p] = "check_publisher"
    /\ IF ~exists(publishers, loc[p].data["publisher_id"])
       THEN Finish(p, "books_create", 400, "publisher_id does not exist")
       ELSE pc' = [pc EXCEPT ![p] = "write"] /\ res' = res
    /\ UNCHANGED <<storeVars, authVars, pageVars, clock, nextId, resp, loc>>

\* lines 377-381: the defaults, then create(BOOKS, data)
CreateWrite(p) ==
    /\ pc[p] = "write"
    /\ books' = create(books, AutoId(nextId + 1), books_create_data(loc[p].data), clock)
    /\ nextId' = nextId + 1 /\ clock' = clock + 1
    /\ Finish(p, "books_create", 201, Ok)
    /\ UNCHANGED <<authors, publishers, borrows, ratings, authVars, pageVars, resp, loc>>

\* authors_delete / pubs_delete: the guard
DeleteCall(p) ==
    /\ pc[p] = "idle"
    /\ \E token \in {TokenNames[1], NoToken}, col \in {"authors", "publishers"},
          id \in {AuthorId, PublisherId} :
          IF ~require_admin_allows(token, FALSE)
          THEN Finish(p, "delete", 401, "Unauthorized") /\ loc' = loc
          ELSE /\ loc' = [loc EXCEPT ![p] = [op |-> "delete", col |-> col, id |-> id]]
               /\ pc' = [pc EXCEPT ![p] = "delete_read"]
               /\ res' = res
    /\ UNCHANGED <<storeVars, authVars, pageVars, clock, nextId, resp>>

\* lines 172-174: ref.get().exists
DeleteRead(p) ==
    /\ pc[p] = "delete_read"
    /\ IF ~exists(IF loc[p].col = "authors" THEN authors ELSE publishers, loc[p].id)
       THEN Finish(p, "delete", 404, "Not found")
       ELSE pc' = [pc EXCEPT ![p] = "delete_write"] /\ res' = res
    /\ UNCHANGED <<storeVars, authVars, pageVars, clock, nextId, resp, loc>>

\* lines 175-176: ref.delete()
DeleteWrite(p) ==
    /\ pc[p] = "delete_write"
    /\ IF loc[p].col = "authors"
       THEN authors' = Remove(authors, loc[p].id) /\ publishers' = publishers
       ELSE publishers' = Remove(publishers, loc[p].id) /\ authors' = authors
    /\ Finish(p, "delete", 204, Ok)
    /\ UNCHANGED <<books, borrows, ratings, authVars, pageVars, clock, nextId, resp, loc>>

NextRef ==
    \E p \in Clients :
        \/ CreateCall(p) \/ CreateCheckAuthor(p) \/ CreateCheckPublisher(p)
        \/ CreateWrite(p)
        \/ DeleteCall(p) \/ DeleteRead(p) \/ DeleteWrite(p)

SpecRef == InitRef /\ [][NextRef]_vars

C5_Step ==
    \A p \in Clients :
        CreateWrite(p) =>
            /\ exists(authors, loc[p].data["author_id"])
            /\ exists(publishers, loc[p].data["publisher_id"])

\* C5: at the moment books_create writes the book document, its author_id
\* and its publisher_id both resolve to existing documents
C5_ReferencesResolveAtWrite == [][C5_Step]_vars

(***************************************************************************)
(* Sessions: login, the require_admin guard, logout and the session check, *)
(* one store call or cache operation at a time, for at most NumProcs       *)
(* requests in flight.  The requests in flight are the bag loc: a request  *)
(* is where it stands (at), its handler (op) and its token.  Restart is    *)
(* the process starting again with an empty cache.  resp is the last       *)
(* response sent.                                                          *)
(***************************************************************************)
NumProcs == 2
MaxTokens == 1

ADMIN_USERNAME == "admin"
ADMIN_PASSWORD == "library123"
Usernames == {<<"admin">>, <<" ", "admin", " ">>, <<"root">>}
Passwords == {"library123", "guess"}

\* line 225, after the username has been stripped
login_ok(username, password) ==
    Strip(username) = <<ADMIN_USERNAME>> /\ password = ADMIN_PASSWORD

\* guarded: the answer of a handler behind require_admin; live: the token
\* of the request had been returned by a login and logout had not been
\* called with it when the answer was sent; afterLogout: the request was
\* made after a logout of its token had been answered 200; lookupFailed:
\* its read of the session collection failed
AuthRes(guarded, status, live, afterLogout, lookupFailed) ==
    [guarded |-> guarded, status |-> status, live |-> live,
     afterLogout |-> afterLogout, lookupFailed |-> lookupFailed]
NoAuthRes == AuthRes(FALSE, 0, FALSE, FALSE, FALSE)

\* a request in flight
Request(at, op, token, afterLogout) ==
    [at |-> at, op |-> op, token |-> token, afterLogout |-> afterLogout]
\* where a request of each handler can stand
Places ==
    {<<"login_set", "login">>,
     <<"lookup", "logout">>, <<"cache_add", "logout">>,
     <<"logout", "logout">>, <<"logout_delete", "logout">>,
     <<"lookup", "session_info">>, <<"cache_add", "session_info">>,
     <<"session_info", "session_info">>}
Requests ==
    {Request(pl[1], pl[2], TokenNames[i], afterLogout) :
        pl \in Places, i \in 1..MaxTokens, afterLogout \in BOOLEAN}
InFlight == BagToSet(loc)
At(r, at) == BagIn(r, loc) /\ r.at = at
CanAccept == BagCardinality(loc) < NumProcs
Accept(r) == loc' = loc (+) SetToBag({r})
Move(r, at) == loc' = (loc (-) SetToBag({r})) (+) SetToBag({[r EXCEPT !.at = at]})

InitAuth ==
    /\ SeededStore /\ NoAuth /\ NoPaging
    /\ pc = <<>>
    /\ loc = EmptyBag
    /\ res = <<>>
    /\ resp = NoAuthRes

Respond(r, status, lookupFailed) ==
    /\ resp' = AuthRes(r.op # "login", status, r.token \in issued \ logoutCalled,
                       r.afterLogout, lookupFailed)
    /\ loc' = loc (-) SetToBag({r})

\* lines 222-227: the credentials are compared; on a match the token is
\* generated and put into the cache
LoginCall ==
    /\ CanAccept
    /\ \E username \in Usernames, password \in Passwords :
          IF login_ok(username, password)
          THEN /\ minted < MaxTokens
               /\ minted' = minted + 1
               /\ admin_tokens' = admin_tokens \cup {TokenNames[minted + 1]}
               /\ Accept(Request("login_set", "login", TokenNames[minted + 1], FALSE))
               /\ resp' = resp
          ELSE /\ resp' = AuthRes(FALSE, 401, FALSE, FALSE, FALSE)
               /\ UNCHANGED <<minted, admin_tokens, loc>>
    /\ UNCHANGED <<storeVars, admin_sessions, issued, logoutCalled, revoked, pageVars,
                   clock, nextId, pc, res>>

\* LoginSet answering 200 with the token although the write failed
LoginSet_IgnoreFailure(r) ==
    /\ At(r, "login_set")
    /\ \E written \in BOOLEAN :
          /\ admin_sessions' = IF written THEN admin_sessions \cup {r.token}
                               ELSE admin_sessions
          /\ issued' = issued \cup {r.token}
          /\ Respond(r, 200, FALSE)
    /\ UNCHANGED <<storeVars, admin_tokens, minted, logoutCalled, revoked, pageVars,
                   clock, nextId, pc, res>>

\* lines 228-231: the session document is written, then the token returned;
\* a failed write is an uncaught exception, answered 500
LoginSet(r) ==
    /\ At(r, "login_set")
    /\ \E written \in BOOLEAN :
          IF written
          THEN /\ admin_sessions' = admin_sessions \cup {r.token}
               /\ issued' = issued \cup {r.token}
               /\ Respond(r, 200, FALSE)
          ELSE /\ UNCHANGED <<admin_sessions, issued>>
               /\ Respond(r, 500, FALSE)
    /\ UNCHANGED <<storeVars, admin_tokens, minted, logoutCalled, revoked, pageVars,
                   clock, nextId, pc, res>>

\* lines 47-50: the token is taken from the header and looked up in the
\* cache; a client sends no token or a token a login has returned
GuardCall ==
    /\ CanAccept
    /\ \E op \in {"logout", "session_info"}, token \in {NoToken} \cup issued :
          /\ logoutCalled' = IF op = "logout" /\ token # NoToken
                             THEN logoutCalled \cup {token} ELSE logoutCalled
          /\ IF token = NoToken
             THEN /\ resp' = AuthRes(TRUE, 401, FALSE, FALSE, FALSE)
                  /\ loc' = loc
             ELSE /\ Accept(Request(IF token \in admin_tokens THEN op ELSE "lookup",
                                    op, token, token \in revoked))
                  /\ resp' = resp
    /\ UNCHANGED <<storeVars, admin_sessions, admin_tokens, minted, issued, revoked,
                   pageVars, clock, nextId, pc, res>>

\* GuardLookup letting the request in when the read fails
GuardLookup_FailOpen(r) ==
    /\ At(r, "lookup")
    /\ \E lookupOk \in BOOLEAN :
          IF ~lookupOk \/ r.token \in admin_sessions
          THEN /\ Move(r, "cache_add")
               /\ resp' = resp
          ELSE Respond(r, 401, ~lookupOk)
    /\ UNCHANGED <<storeVars, authVars, pageVars, clock, nextId, pc, res>>

\* lines 51-58: the session document is read; an exception of the read is
\* answered like a missing session
GuardLookup(r) ==
    /\ At(r, "lookup")
    /\ \E lookupOk \in BOOLEAN :
          IF lookupOk /\ r.token \in admin_sessions
          THEN /\ Move(r, "cache_add")
               /\ resp' = resp
          ELSE Respond(r, 401, ~lookupOk)
    /\ UNCHANGED <<storeVars, authVars, pageVars, clock, nextId, pc, res>>

\* line 53: _admin_tokens.add(token), then the handler is entered
GuardAdd(r) ==
    /\ At(r, "cache_add")
    /\ admin_tokens' = admin_tokens \cup {r.token}
    /\ Move(r, r.op)
    /\ UNCHANGED <<storeVars, admin_sessions, minted, issued, logoutCalled, revoked,
                   pc, res, pageVars, clock, nextId, resp>>

\* lines 246-249
SessionInfo(r) ==
    /\ At(r, "session_info")
    /\ Respond(r, 200, FALSE)
    /\ UNCHANGED <<storeVars, authVars, pageVars, clock, nextId, pc, res>>

\* lines 237-239: _admin_tokens.discard(token)
LogoutDiscard(r) ==
    /\ At(r, "logout")
    /\ admin_tokens' = admin_tokens \ {r.token}
    /\ Move(r, "logout_delete")
    /\ UNCHANGED <<storeVars, admin_sessions, minted, issued, logoutCalled, revoked,
                   pc, res, pageVars, clock, nextId, resp>>

\* lines 240-244: the session document is deleted, an exception of the
\* delete is swallowed, and the answer is 200 either way
LogoutDelete(r) ==
    /\ At(r, "logout_delete")
    /\ \E deleted \in BOOLEAN :
          admin_sessions' = IF deleted THEN admin_sessions \ {r.token}
                            ELSE admin_sessions
    /\ revoked' = revoked \cup {r.token}
    /\ Respond(r, 200, FALSE)
    /\ UNCHANGED <<storeVars, admin_tokens, minted, issued, logoutCalled, pageVars,
                   clock, nextId, pc, res>>

\* the process is started again: the cache is empty, the requests that were
\* in flight are gone, the collections are as they were
Restart ==
    /\ admin_tokens # {} \/ loc # EmptyBag
    /\ admin_tokens' = {}
    /\ loc' = EmptyBag
    /\ UNCHANGED <<storeVars, admin_sessions, minted, issued, logoutCalled, revoked,
                   pc, res, pageVars, clock, nextId, resp>>

NextAuth ==
    \/ LoginCall
    \/ GuardCall
    \/ \E r \in Requests :
          \/ LoginSet(r)
          \/ GuardLookup(r) \/ GuardAdd(r)
          \/ SessionInfo(r) \/ LogoutDiscard(r) \/ LogoutDelete(r)
    \/ Restart

SpecAuth == InitAuth /\ [][NextAuth]_vars

\* C2: a guarded request made with a token after a logout of that token has
\* been answered 200 is answered 401
C2_RejectedAfterLogout ==
    (resp.guarded /\ resp.afterLogout) => resp.status = 401

\* C8 as claimed: a guarded request with a token a login has returned, and
\* with which logout has not been called, is never answered 401
C8_AcceptedUntilLogout ==
    (resp.guarded /\ resp.live) => resp.status # 401

\* C8: a guarded request with a token a login has returned, and with which
\* logout has not been called, is answered 401 only when its read of the
\* session collection failed
C8_AcceptedUnlessLookupFails ==
    (resp.guarded /\ resp.live) => (resp.status # 401 \/ resp.lookupFailed)

\* after a restart has emptied the cache, a request was let in by the
\* session collection and has put its token back into the cache
C8_Witness ==
    /\ resp.guarded /\ resp.live /\ resp.status = 200
    /\ admin_tokens # {} /\ admin_tokens \subseteq issued \ logoutCalled
    /\ \E r \in InFlight : r.at = "lookup"

(***************************************************************************)
(* Every guarded handler, each request run in one piece, with logout and   *)
(* restarts of the process, from one session left in the collection        *)
(***************************************************************************)
BooksDelete(token, id) ==
    /\ Protected(token, "books_delete", id, Empty,
         /\ books' = delete_one(books, id)
         /\ resp' = IF exists(books, id) THEN Reply("books_delete", 204, Ok, id, Empty)
                    ELSE Reply("books_delete", 404, "Not found", id, Empty)
         /\ UNCHANGED <<authors, publishers, borrows, ratings, clock, nextId>>)
    /\ UNCHANGED <<procVars, pageVars>>

\* lines 418-422
BorrowsList(token) ==
    /\ Protected(token, "borrows_list", "", Empty,
         /\ resp' = Reply("borrows_list", 200, Ok, "", Empty)
         /\ UNCHANGED <<storeVars, clock, nextId>>)
    /\ UNCHANGED <<procVars, pageVars>>

\* lines 246-249
SessionCheck(token) ==
    /\ Protected(token, "session_info", "", Empty,
         /\ resp' = Reply("session_info", 200, Ok, "", Empty)
         /\ UNCHANGED <<storeVars, clock, nextId>>)
    /\ UNCHANGED <<procVars, pageVars>>

\* logout without the discard from the cache
Logout_KeepCache(token) ==
    /\ \E lookupOk \in (IF token \in admin_tokens THEN {TRUE} ELSE BOOLEAN),
          deleted \in BOOLEAN :
          IF require_admin_allows(token, lookupOk)
          THEN /\ admin_tokens' = require_admin_cache(token, lookupOk)
               /\ admin_sessions' = IF deleted THEN admin_sessions \ {token}
                                    ELSE admin_sessions
               /\ logoutCalled' = logoutCalled \cup {token}
               /\ revoked' = revoked \cup {token}
               /\ resp' = Reply("logout", 200, Ok, token, Empty)
               /\ UNCHANGED <<minted, issued>>
          ELSE /\ resp' = Reply("logout", 401, "Unauthorized", token, Empty)
               /\ UNCHANGED authVars
    /\ UNCHANGED <<storeVars, procVars, pageVars, clock, nextId>>

\* lines 234-244: the guard, then the token leaves the cache and, unless the
\* delete fails, the session collection; the answer names the token of
\* the request
Logout(token) ==
    /\ \E lookupOk \in (IF token \in admin_tokens THEN {TRUE} ELSE BOOLEAN),
          deleted \in BOOLEAN :
          IF require_admin_allows(token, lookupOk)
          THEN /\ admin_tokens' = require_admin_cache(token, lookupOk) \ {token}
               /\ admin_sessions' = IF deleted THEN admin_sessions \ {token}
                                    ELSE admin_sessions
               /\ logoutCalled' = logoutCalled \cup {token}
               /\ revoked' = revoked \cup {token}
               /\ resp' = Reply("logout", 200, Ok, token, Empty)
               /\ UNCHANGED <<minted, issued>>
          ELSE /\ resp' = Reply("logout", 401, "Unauthorized", token, Empty)
               /\ UNCHANGED authVars
    /\ UNCHANGED <<storeVars, procVars, pageVars, clock, nextId>>

MaxLogins == 2

\* login putting a token into the cache before it compares the credentials
Login_CacheFirst(username, password) ==
    /\ minted < MaxLogins
    /\ minted' = minted + 1
    /\ admin_tokens' = admin_tokens \cup {TokenNames[minted + 1]}
    /\ IF login_ok(username, password)
       THEN /\ admin_sessions' = admin_sessions \cup {TokenNames[minted + 1]}
            /\ issued' = issued \cup {TokenNames[minted + 1]}
            /\ resp' = Reply("login", 200, Ok, TokenNames[minted + 1], Empty)
       ELSE /\ resp' = Reply("login", 401, "Invalid credentials", "", Empty)
            /\ UNCHANGED <<admin_sessions, issued>>
    /\ UNCHANGED <<logoutCalled, revoked>>
    /\ UNCHANGED <<storeVars, procVars, pageVars, clock, nextId>>

\* lines 220-232; the id of the answer is the token returned
Login(username, password) ==
    /\ IF login_ok(username, password)
       THEN /\ minted < MaxLogins
            /\ minted' = minted + 1
            /\ admin_tokens' = admin_tokens \cup {TokenNames[minted + 1]}
            /\ \E written \in BOOLEAN :
                  IF written
                  THEN /\ admin_sessions' = admin_sessions \cup {TokenNames[minted + 1]}
                       /\ issued' = issued \cup {TokenNames[minted + 1]}
                       /\ resp' = Reply("login", 200, Ok, TokenNames[minted + 1], Empty)
                  ELSE /\ UNCHANGED <<admin_sessions, issued>>
                       /\ resp' = Reply("login", 500, "write failed", "", Empty)
            /\ UNCHANGED <<logoutCalled, revoked>>
       ELSE /\ resp' = Reply("login", 401, "Invalid credentials", "", Empty)
            /\ UNCHANGED authVars
    /\ UNCHANGED <<storeVars, procVars, pageVars, clock, nextId>>

ProcessRestart ==
    /\ admin_tokens # {}
    /\ admin_tokens' = {}
    /\ UNCHANGED <<storeVars, admin_sessions, minted, issued, logoutCalled, revoked,
                   procVars, pageVars, clock, nextId, resp>>

GuardedCall(token) ==
    \/ AuthorsCreate(token, [name |-> "B"])
    \/ AuthorsUpdate(token, AuthorId, [name |-> "N"])
    \/ AuthorsDelete(token, AuthorId)
    \/ PubsCreate(token, [name |-> "Q"])
    \/ PubsUpdate(token, PublisherId, [city |-> "D"])
    \/ PubsDelete(token, PublisherId)
    \/ BooksCreate(token, PlainBook)
    \/ BooksUpdate(token, BookId, [title |-> "U"])
    \/ BooksDelete(token, BookId)
    \/ BorrowsList(token)
    \/ SessionCheck(token)
    \/ Logout(token)

InitGuard ==
    /\ SeededStore /\ SeededAuth /\ NoProcs /\ NoPaging
    /\ resp = NoResp

NextGuard ==
    \/ \E token \in ClientTokens : GuardedCall(token)
    \/ ProcessRestart

SpecGuard == InitGuard /\ [][NextGuard]_vars

UnknownToken(token) ==
    token = NoToken \/ (token \notin admin_tokens /\ token \notin admin_sessions)

\* the step answers 401 and writes nothing
Rejected ==
    /\ resp'.status = 401
    /\ UNCHANGED <<storeVars, admin_tokens, admin_sessions>>

\* a step is a guarded call with an unknown token only if it is a rejection
C3_Step ==
    \A token \in ClientTokens :
        UnknownToken(token) => (Rejected \/ ~GuardedCall(token))

\* C3: a guarded operation called without a token, or with a token that is
\* in neither the cache nor the session collection, is answered 401 and
\* leaves every collection and the cache as they were
C3_UnknownTokenRejected == [][C3_Step]_vars

\* a logged-out token is refused while the document it names is still there
C3_Witness ==
    /\ resp.op = "authors_delete" /\ resp.status = 401
    /\ exists(authors, AuthorId)
    /\ revoked # {} /\ revoked \cap (admin_tokens \cup admin_sessions) = {}

(***************************************************************************)
(* Pagination: the list handlers call paginate on the filtered items with  *)
(* the parsed limit and offset.                                            *)
(***************************************************************************)
ItemNames == {"x", "y"}
SeqsUpTo(S, n) == UNION {[1..k -> S] : k \in 0..n}

\* the decimal text of an integer, as a client writes it in a query string
DigitChars == <<"0", "1", "2", "3", "4", "5", "6", "7", "8", "9">>
RECURSIVE NatChars(_)
NatChars(n) ==
    IF n < 10 THEN <<DigitChars[n + 1]>>
    ELSE Append(NatChars(n \div 10), DigitChars[(n % 10) + 1])
IntChars(n) == IF n < 0 THEN <<"-">> \o NatChars(0 - n) ELSE NatChars(n)

LimitArgs == {None, JStr(<<>>), JStr(<<"a">>)}
                 \cup {JStr(IntChars(n)) : n \in (0 - 1)..(MaxLimit + 1)}
OffsetArgs == {None, JStr(<<"a">>)}
                 \cup {JStr(IntChars(n)) : n \in (0 - 1)..MaxOffset}

InitPage ==
    /\ pgItems \in SeqsUpTo(ItemNames, MaxItems)
    /\ pgLimit \in LimitArgs
    /\ pgOffset \in OffsetArgs
    /\ pgOut = NoPage
    /\ NoStore /\ NoAuth /\ NoProcs
    /\ clock = 0 /\ nextId = 0 /\ resp = NoResp

\* the tail of authors_list, pubs_list and books_list
ListPage ==
    /\ pgOut = NoPage
    /\ pgOut' = paginate(pgItems, parse_limit(pgLimit, DefaultLimit, MaxLimit),
                         parse_offset(pgOffset, 0))
    /\ UNCHANGED <<pgItems, pgLimit, pgOffset, storeVars, authVars, procVars,
                   clock, nextId, resp>>

NextPage == ListPage

SpecPage == InitPage /\ [][NextPage]_vars

\* the items at positions offset+1 .. offset+limit, as far as they exist
ExpectedItems(items, limit, offset) ==
    [i \in 1..(IF offset >= Len(items) THEN 0 ELSE Min(limit, Len(items) - offset))
        |-> items[offset + i]]

\* C9: for a limit in 1..100 and an offset >= 0 the page is the items sliced
\* at [offset, offset+limit), total is the number of items, has_more holds
\* exactly when offset + returned < total, and an offset at or beyond the
\* length gives an empty page without has_more
C9_PaginateSlice ==
    pgOut # NoPage =>
        \A L \in 1..MaxLimit, O \in 0..MaxOffset :
            (pgLimit = JStr(IntChars(L)) /\ pgOffset = JStr(IntChars(O))) =>
                /\ pgOut.items = ExpectedItems(pgItems, L, O)
                /\ pgOut.total = Len(pgItems)
                /\ pgOut.has_more = (O + Len(pgOut.items) < pgOut.total)
                /\ (O >= Len(pgItems) => pgOut.items = <<>> /\ ~pgOut.has_more)

C9_Witness ==
    /\ pgOut # NoPage
    /\ pgLimit = JStr(<<"2">>) /\ pgOffset = JStr(<<"1">>)
    /\ Len(pgItems) = 3 /\ Len(pgOut.items) = 2

(***************************************************************************)
(* Deletes: authors, publishers and books are created, deleted and read,   *)
(* each request run in one piece with the token of the seeded session      *)
(***************************************************************************)
\* lines 354-357
BooksGet(id) ==
    /\ resp' = IF get_one(books, id) # Empty THEN Reply("books_get", 200, Ok, id, Empty)
               ELSE Reply("books_get", 404, "Not found", id, Empty)
    /\ UNCHANGED <<storeVars, authVars, procVars, pageVars, clock, nextId>>

DeleteIds == {AuthorId, PublisherId, BookId, AutoId(4), "zz"}

InitDelete ==
    /\ SeededStore /\ SeededAuth /\ NoProcs /\ NoPaging
    /\ resp = NoResp

NextDelete ==
    \/ AuthorsCreate(TokenNames[1], [name |-> "B"])
    \/ PubsCreate(TokenNames[1], [name |-> "Q"])
    \/ BooksCreate(TokenNames[1], PlainBook)
    \/ \E id \in DeleteIds : AuthorsDelete(TokenNames[1], id)
    \/ \E id \in DeleteIds : PubsDelete(TokenNames[1], id)
    \/ \E id \in DeleteIds : BooksDelete(TokenNames[1], id)
    \/ \E id \in DeleteIds : AuthorsGet(id)
    \/ \E id \in DeleteIds : PubsGet(id)
    \/ \E id \in DeleteIds : BooksGet(id)

SpecDelete == InitDelete /\ [][NextDelete]_vars

\* what a delete of id that got past the guard must have done to its
\* collection and answered
Deleted(before, after, id, status) ==
    IF id \in DOMAIN before
    THEN /\ status = 204
         /\ get_one(after, id) = Empty
         /\ DOMAIN after = DOMAIN before \ {id}
         /\ \A o \in DOMAIN after : after[o] = before[o]
    ELSE /\ status = 404
         /\ after = before

C11_Step ==
    /\ (resp'.op = "authors_delete" /\ resp'.status # 401) =>
          /\ Deleted(authors, authors', resp'.id, resp'.status)
          /\ UNCHANGED <<publishers, books, borrows, ratings>>
    /\ (resp'.op = "pubs_delete" /\ resp'.status # 401) =>
          /\ Deleted(publishers, publishers', resp'.id, resp'.status)
          /\ UNCHANGED <<authors, books, borrows, ratings>>
    /\ (resp'.op = "books_delete" /\ resp'.status # 401) =>
          /\ Deleted(books, books', resp'.id, resp'.status)
          /\ UNCHANGED <<authors, publishers, borrows, ratings>>

\* C11: a delete of an existing author, publisher or book answers 204,
\* removes that document alone, so that a get of the id finds nothing, and
\* leaves every other document as it was, the books that reference it
\* included; a delete of an id that does not exist answers 404 and changes
\* nothing
C11_DeleteFrame == [][C11_Step]_vars

\* the seeded author has been deleted while a second author and the book
\* that references the deleted one are still there
C11_Witness ==
    /\ resp.op = "authors_delete" /\ resp.status = 204 /\ resp.id = AuthorId
    /\ ~exists(authors, AuthorId) /\ authors # Empty
    /\ exists(books, BookId) /\ books[BookId]["author_id"] = AuthorId

(***************************************************************************)
(* Timestamps and ids of created documents, under SpecCrud                 *)
(***************************************************************************)
C12_Step ==
    (resp'.op = "authors_create" /\ resp'.status = 201) =>
        LET id == resp'.id
        IN /\ id \notin DOMAIN authors
           /\ id \in DOMAIN authors'
           /\ authors'[id]["createdAt"] = clock
           /\ authors'[id]["updatedAt"] = clock

\* C12: every document create produces, for every accepted payload, the
\* payloads that carry createdAt or updatedAt included, has an id no other
\* document of the collection uses and has createdAt = updatedAt = the time
\* of the creation
C12_CreateStamps == [][C12_Step]_vars

(***************************************************************************)
(* Tags of stored books: books_create and books_update with tag inputs,    *)
(* each request run in one piece with the token of the seeded session      *)
(***************************************************************************)
Fantasy == <<"Fantasy">>
Mystery == <<"Mystery">>
Padded == <<" ", "Fantasy", " ">>
Unlisted == <<"Bogus">>
LowerCase == <<"fantasy">>
Blank == <<" ">>

TagInputs ==
    {NoTags, TagStr(<<>>), TagStr(Fantasy), TagStr(Padded), TagStr(Unlisted),
     TagList(<<>>), TagList(<<Fantasy, Fantasy>>),
     TagList(<<Fantasy, Unlisted, Mystery>>),
     TagList(<<Mystery, Padded, Fantasy>>),
     TagList(<<Blank, LowerCase, Mystery>>)}

InitBookTags ==
    /\ SeededStore /\ SeededAuth /\ NoProcs /\ NoPaging
    /\ resp = NoResp

NextBookTags ==
    \/ \E data \in {PlainBook} \cup {Merge(PlainBook, Field("tags", v)) : v \in TagInputs} :
          BooksCreate(TokenNames[1], data)
    \/ \E id \in BookIds,
          data \in {[title |-> "U"]} \cup {Field("tags", v) : v \in TagInputs} :
          BooksUpdate(TokenNames[1], id, data)

SpecBookTags == InitBookTags /\ [][NextBookTags]_vars

NoDuplicates(sq) == \A i, j \in 1..Len(sq) : i # j => sq[i] # sq[j]

\* C13: the tags of every stored book are members of TAG_OPTIONS, none of
\* them twice
C13_StoredTagsClean ==
    \A id \in DOMAIN books :
        /\ \A i \in 1..Len(books[id]["tags"]) : books[id]["tags"][i] \in TAG_OPTIONS
        /\ NoDuplicates(books[id]["tags"])

\* an update whose tags held a duplicate or an unlisted tag has been stored
C13_Witness ==
    /\ resp.op = "books_update" /\ resp.status = 200
    /\ Has(resp.input, "tags") /\ resp.input["tags"].k = "list"
    /\ Len(books[resp.id]["tags"]) > 0
    /\ Len(books[resp.id]["tags"]) < Len(resp.input["tags"].l)

(***************************************************************************)
(* Borrow requests: books_borrow next to every other handler, each request *)
(* run in one piece.  The texts of a request are sequences of atoms.       *)
(***************************************************************************)
MaxBorrows == 2

BorrowIdNames == <<"b1", "b2", "b3", "b4">>

\* dict.get(f) being truthy for a field that holds a text
TruthyText(doc, f) == Has(doc, f) /\ doc[f] # <<>>

TextOr(doc, f) == IF Has(doc, f) THEN doc[f] ELSE <<>>

\* create_borrow_record taking the title from the request instead of the book
create_borrow_record_RequestTitle(col, id, book, data, ts) ==
    Put(col, id,
        [book_id |-> book["id"],
         book_title |-> "",
         name |-> Strip(TextOr(data, "name")),
         email |-> Strip(TextOr(data, "email")),
         notes |-> Strip(TextOr(data, "notes")),
         status |-> "pending",
         createdAt |-> ts])

\* lines 193-206: the borrows collection after the record has been set
create_borrow_record(col, id, book, data, ts) ==
    Put(col, id,
        [book_id |-> book["id"],
         book_title |-> book["title"],
         name |-> Strip(TextOr(data, "name")),
         email |-> Strip(TextOr(data, "email")),
         notes |-> Strip(TextOr(data, "notes")),
         status |-> "pending",
         createdAt |-> ts])

BorrowInputs ==
    {[name |-> <<" ", "Ann", " ">>, email |-> <<"a@x">>],
     [name |-> <<"Ann">>, email |-> <<"a@x">>, notes |-> <<"soon", " ">>],
     [name |-> <<"Ann">>],
     [name |-> <<>>, email |-> <<"a@x">>]}

\* lines 406-416
BooksBorrow(id, data) ==
    /\ Cardinality(DOMAIN borrows) < MaxBorrows /\ clock < MaxClock
    /\ LET book == get_one(books, id)
           answer(status, error) ==
               [op |-> "books_borrow", status |-> status, error |-> error,
                id |-> id, input |-> data]
       IN IF book = Empty
          THEN /\ resp' = answer(404, "Book not found")
               /\ UNCHANGED <<borrows, clock>>
          ELSE IF {f \in {"name", "email"} : ~TruthyText(data, f)} # {}
          THEN /\ resp' = answer(400, "Missing required field(s)")
               /\ UNCHANGED <<borrows, clock>>
          ELSE /\ borrows' = create_borrow_record(
                                borrows, BorrowIdNames[Cardinality(DOMAIN borrows) + 1],
                                book, data, clock)
               /\ clock' = clock + 1
               /\ resp' = answer(201, Ok)
    /\ UNCHANGED <<authors, publishers, books, ratings, authVars, procVars, pageVars,
                   nextId>>

InitBorrow ==
    /\ SeededStore /\ SeededAuth /\ NoProcs /\ NoPaging
    /\ resp = NoResp

NextBorrow ==
    \/ \E id \in BookIds, data \in BorrowInputs : BooksBorrow(id, data)
    \/ GuardedCall(TokenNames[1])
    \/ BooksRateCall

SpecBorrow == InitBorrow /\ [][NextBorrow]_vars

C14_Pending == \A b \in DOMAIN borrows : borrows[b]["status"] = "pending"

C14_Step ==
    /\ \A b \in DOMAIN borrows : b \in DOMAIN borrows' /\ borrows'[b] = borrows[b]
    /\ \A b \in DOMAIN borrows' \ DOMAIN borrows :
          /\ exists(books, borrows'[b]["book_id"])
          /\ borrows'[b]["book_title"] = books[borrows'[b]["book_id"]]["title"]

\* C14: every borrow record has status "pending", its book_title is the
\* title the book had when the record was created, and no step of any
\* handler changes or removes a record once it is there
C14_BorrowRecordsKept == []C14_Pending /\ [][C14_Step]_vars

\* a record is still there, with the old title, after its book has been
\* renamed or deleted
C14_Witness ==
    \E b \in DOMAIN borrows :
        /\ borrows[b]["book_title"] = "T"
        /\ \/ ~exists(books, borrows[b]["book_id"])
           \/ books[borrows[b]["book_id"]]["title"] = "U"

(***************************************************************************)
(* Rejections of books_rate, under SpecRateSeq                             *)
(***************************************************************************)
C15_Step ==
    resp'.op = "books_rate" =>
        LET valid == RatingValid(to_int(resp'.input.rating, None))
        IN /\ ~valid => (resp'.status = 400 /\ UNCHANGED <<books, ratings>>)
           /\ (valid /\ ~exists(books, resp'.id)) =>
                 (resp'.status = 404 /\ UNCHANGED storeVars)

\* C15: books_rate with a rating that is not an integer in 1..5 answers 400
\* for every book id, whether the book exists or not, and changes neither a
\* book nor the rating log; with a valid rating and a book id that does not
\* exist it answers 404 and changes nothing
C15_RatingCheckedFirst == [][C15_Step]_vars

(***************************************************************************)
(* Sessions, each request run in one piece: login, logout, the session     *)
(* check and restarts of the process, with the tokens the logins returned  *)
(***************************************************************************)
InitSession ==
    /\ SeededStore /\ NoAuth /\ NoProcs /\ NoPaging
    /\ resp = NoResp

NextSession ==
    \/ \E username \in Usernames, password \in Passwords : Login(username, password)
    \/ \E token \in {NoToken, Bogus} \cup issued : Logout(token)
    \/ \E token \in {NoToken, Bogus} \cup issued : SessionCheck(token)
    \/ ProcessRestart

SpecSession == InitSession /\ [][NextSession]_vars

C16_Step ==
    \A username \in Usernames, password \in Passwords :
        (~login_ok(username, password) /\ Login(username, password)) =>
            /\ resp'.status = 401
            /\ resp'.id = NoToken
            /\ UNCHANGED <<admin_tokens, admin_sessions>>

\* C16: login with a username and password that do not match the operator's
\* answers 401, returns no token and leaves the token cache and the session
\* collection as they were
C16_BadLoginRejected == [][C16_Step]_vars

\* a wrong password has been refused while a session was live
C16_Witness ==
    /\ resp.op = "login" /\ resp.status = 401
    /\ admin_tokens # {} /\ admin_sessions # {}

\* the second of two logouts with one token, the first answered 200
SecondLogout == resp.op = "logout" /\ resp.status = 200 /\ Logout(resp.id)

C17_StepAsClaimed ==
    SecondLogout =>
        /\ resp'.status = 200
        /\ UNCHANGED <<admin_tokens, admin_sessions>>
        /\ resp.id \notin admin_tokens' \cup admin_sessions'

\* C17 as claimed: a second logout with the same token gives the outcome of
\* the first and leaves cache and session collection as the first left
\* them, the token in neither
C17_LogoutSameOutcome == [][C17_StepAsClaimed]_vars

C17_Step ==
    SecondLogout =>
        /\ resp.id \notin admin_tokens'
        /\ admin_sessions' \subseteq admin_sessions
        /\ resp'.status \in {200, 401}
        /\ resp.id \notin admin_sessions =>
              (resp'.status = 401 /\ UNCHANGED <<admin_tokens, admin_sessions>>)

\* C17: a second logout with the same token leaves the token out of the
\* cache and adds nothing to the session collection; when the first logout
\* removed the session document it is answered 401 and changes nothing
C17_LogoutStateIdempotent == [][C17_Step]_vars

\* a logout has been refused for a token an earlier logout removed
C17_Witness ==
    /\ resp.op = "logout" /\ resp.status = 401
    /\ resp.id \in revoked
    /\ resp.id \notin admin_tokens \cup admin_sessions

(***************************************************************************)
(* sanitize_tags on its own: loc is the value passed, res the list         *)
(* returned, resp the list returned for that list passed again             *)
(***************************************************************************)
MaxTags == 3

TagTexts == {Fantasy, Padded, Mystery, Unlisted, LowerCase, Blank, <<>>}

NotRun == <<"not run">>

InitSanitize ==
    /\ loc \in {NoTags} \cup {TagStr(t) : t \in TagTexts}
                 \cup {TagList(l) : l \in SeqsUpTo(TagTexts, MaxTags)}
    /\ res = NotRun /\ resp = NotRun /\ pc = "first"
    /\ NoStore /\ NoAuth /\ NoPaging
    /\ clock = 0 /\ nextId = 0

\* sanitize_tags(value)
Sanitize ==
    /\ pc = "first"
    /\ res' = sanitize_tags(loc)
    /\ pc' = "second"
    /\ UNCHANGED <<loc, resp, storeVars, authVars, pageVars, clock, nextId>>

\* sanitize_tags of the list the first call returned
SanitizeAgain ==
    /\ pc = "second"
    /\ resp' = sanitize_tags(TagList(res))
    /\ pc' = "done"
    /\ UNCHANGED <<loc, res, storeVars, authVars, pageVars, clock, nextId>>

NextSanitize == Sanitize \/ SanitizeAgain

SpecSanitize == InitSanitize /\ [][NextSanitize]_vars

\* the tags of a value, as passed
TagsOf(value) ==
    IF value.k = "null" THEN <<>>
    ELSE IF value.k = "str" THEN <<value.s>> ELSE value.l

\* the trimmed tags of x that are in the vocabulary
Listed(x) == {Strip(x[i]) : i \in 1..Len(x)} \cap TAG_OPTIONS

\* where a listed tag occurs first in x
FirstAt(x, t) == CHOOSE i \in 1..Len(x) :
                    Strip(x[i]) = t /\ \A j \in 1..(i - 1) : Strip(x[j]) # t

\* C18: sanitize_tags(sanitize_tags(x)) = sanitize_tags(x), and
\* sanitize_tags(x) lists the distinct trimmed tags of x that are in the
\* vocabulary, each once, in the order of their first occurrence in x
C18_SanitizeIdempotentOrdered ==
    /\ pc = "done" => resp = res
    /\ pc # "first" =>
          LET x == TagsOf(loc)
          IN /\ {res[i] : i \in 1..Len(res)} = Listed(x)
             /\ NoDuplicates(res)
             /\ \A i, j \in 1..Len(res) :
                   i < j => FirstAt(x, res[i]) < FirstAt(x, res[j])

\* a padded tag, a duplicate and an unlisted tag went in, two tags came out
\* in the order they first occurred
C18_Witness ==
    /\ pc = "done"
    /\ loc = TagList(<<Mystery, Padded, Fantasy>>)
    /\ res = <<Mystery, Fantasy>>

(***************************************************************************)
(* The guard for a token that is not in the cache, and the cache against   *)
(* the session collection, under SpecAuth                                  *)
(***************************************************************************)
\* the request r has gone on to the place at
Reached(r, at) ==
    CopiesIn([r EXCEPT !.at = at], loc') > CopiesIn([r EXCEPT !.at = at], loc)

C19_Step ==
    \A r \in InFlight :
        /\ GuardLookup(r) =>
              IF Reached(r, "cache_add")
              THEN r.token \in admin_sessions
              ELSE /\ resp'.guarded /\ resp'.status = 401
                   /\ admin_tokens' = admin_tokens
                   /\ resp'.lookupFailed \/ r.token \notin admin_sessions
        /\ GuardAdd(r) =>
              /\ r.token \in admin_tokens'
              /\ Reached(r, r.op)

\* C19: a request whose token is not in the cache gets past the guard
\* exactly when the read of the session collection succeeds and finds the
\* token, and the token is then put into the cache; when the token is not
\* in the collection or the read fails, the answer is 401 and the cache is
\* as it was
C19_LazyRepopulation == [][C19_Step]_vars

\* after a restart a request was let in by the session collection: its
\* token is back in the cache
C19_Witness ==
    /\ \E r \in InFlight : r.at = r.op /\ r.op # "login" /\ r.token \in admin_tokens
    /\ resp.guarded /\ resp.status = 401 /\ resp.lookupFailed

\* C20: whenever no request is in flight, every token of the cache is in
\* the session collection
C20_CacheWithinSessions ==
    loc = EmptyBag => admin_tokens \subseteq admin_sessions

====
